---------------------------- MODULE Spec2Model ----------------------------
(***************************************************************************)
(* A model of gh-buddy: the branch-name / PR-text string functions and the *)
(* two command orchestrators create-branch and create-pr.                  *)
(*                                                                         *)
(* Text is modelled as a sequence of characters.  An ASCII character is a  *)
(* one-character string; a non-ASCII rune is a string naming its code      *)
(* point ("U+212A").  The empty text is << >>.                             *)
(***************************************************************************)
EXTENDS Integers, Sequences, FiniteSets, TLC

VARIABLES
    pc,        \* position of the running command / of the function harness
    input,     \* harness: the arguments the functions are applied to
    result,    \* harness: the values returned so far, in call order
    cmd,       \* "create-branch" | "create-pr" | "none"
    flags,     \* the command line: useDefaults and the command's flags
    loc,       \* the locals of runCreateBranch / runCreatePR
    trace,     \* every gateway call, prompt and warning so far, in order
    exitCode   \* -1 while running, then 0 or 1 (root.go Execute)

vars == <<pc, input, result, cmd, flags, loc, trace, exitCode>>

-----------------------------------------------------------------------------
(* Characters *)

Lower == <<"a","b","c","d","e","f","g","h","i","j","k","l","m",
           "n","o","p","q","r","s","t","u","v","w","x","y","z">>
Upper == <<"A","B","C","D","E","F","G","H","I","J","K","L","M",
           "N","O","P","Q","R","S","T","U","V","W","X","Y","Z">>
Digit == <<"0","1","2","3","4","5","6","7","8","9">>

Range(f) == {f[i] : i \in DOMAIN f}
LowerSet == Range(Lower)
UpperSet == Range(Upper)
DigitSet == Range(Digit)

IndexOf(seq, c) == CHOOSE i \in DOMAIN seq : seq[i] = c

SetMax(S) == CHOOSE m \in S : \A k \in S : k <= m
SetMin(S) == CHOOSE m \in S : \A k \in S : m <= k

\* s[from:] of Go
Drop(s, k) == SubSeq(s, k + 1, Len(s))
\* s[:to] of Go
Take(s, k) == SubSeq(s, 1, k)

\* strings.HasPrefix
HasPrefix(s, p) == Len(s) >= Len(p) /\ Take(s, Len(p)) = p

\* strings.Contains: p occurs in s
Contains(s, p) == \E i \in 0..(Len(s) - Len(p)) : SubSeq(s, i + 1, i + Len(p)) = p

\* strings.Index: the offset of the first occurrence of p in s, -1 when none
Index(s, p) ==
    IF Contains(s, p)
    THEN SetMin({i \in 0..(Len(s) - Len(p)) : SubSeq(s, i + 1, i + Len(p)) = p})
    ELSE -1

\* the length of the maximal run of decimal digits s starts with
DigitRun(s) ==
    IF \A i \in DOMAIN s : s[i] \in DigitSet
    THEN Len(s)
    ELSE SetMin({i \in DOMAIN s : s[i] \notin DigitSet}) - 1

-----------------------------------------------------------------------------
(* Numbers and text: fmt's %d and strconv.Atoi *)

RECURSIVE Itoa(_)
\* fmt.Sprintf("%d", n)
Itoa(n) ==
    IF n < 0 THEN <<"-">> \o Itoa(0 - n)
    ELSE IF n < 10 THEN <<Digit[n + 1]>>
    ELSE Append(Itoa(n \div 10), Digit[(n % 10) + 1])

\* the decimal digits of the largest int (64 bit): 9223372036854775807
MaxIntDigits ==
    <<"9","2","2","3","3","7","2","0","3","6","8","5","4","7","7","5","8","0","7">>

\* ds without its leading zeros
StripZeros(ds) ==
    IF \A i \in DOMAIN ds : ds[i] = "0" THEN << >>
    ELSE Drop(ds, SetMin({i \in DOMAIN ds : ds[i] # "0"}) - 1)

\* a <= b for digit strings of the same length
DigitsLeq(a, b) ==
    \/ a = b
    \/ \E i \in DOMAIN a :
          /\ Take(a, i - 1) = Take(b, i - 1)
          /\ IndexOf(Digit, a[i]) < IndexOf(Digit, b[i])

\* strconv.Atoi fails on anything but an optional sign and decimal digits, and
\* on a value out of the range of int
AtoiOk(s) ==
    LET ds == IF Len(s) > 0 /\ s[1] \in {"+", "-"} THEN Tail(s) ELSE s
        sig == StripZeros(ds)
    IN  /\ Len(ds) > 0
        /\ \A i \in DOMAIN ds : ds[i] \in DigitSet
        /\ \/ Len(sig) < Len(MaxIntDigits)
           \/ Len(sig) = Len(MaxIntDigits) /\ DigitsLeq(sig, MaxIntDigits)

RECURSIVE DigitsValue(_)
DigitsValue(ds) ==
    IF ds = << >> THEN 0
    ELSE 10 * DigitsValue(Take(ds, Len(ds) - 1)) + (IndexOf(Digit, ds[Len(ds)]) - 1)

\* strconv.Atoi's value, where AtoiOk
Atoi(s) ==
    IF Len(s) > 0 /\ s[1] = "-" THEN 0 - DigitsValue(Tail(s))
    ELSE IF Len(s) > 0 /\ s[1] = "+" THEN DigitsValue(Tail(s))
    ELSE DigitsValue(s)

-----------------------------------------------------------------------------
(* package branch *)

Feature  == <<"f","e","a","t","u","r","e">>
Bugfix   == <<"b","u","g","f","i","x">>
Hotfix   == <<"h","o","t","f","i","x">>
Release  == <<"r","e","l","e","a","s","e">>
Chore    == <<"c","h","o","r","e">>
Docs     == <<"d","o","c","s">>
Refactor == <<"r","e","f","a","c","t","o","r">>
Test     == <<"t","e","s","t">>
Internal == <<"i","n","t","e","r","n","a","l">>

AllIssueTypes ==
    <<Feature, Bugfix, Hotfix, Release, Chore, Docs, Refactor, Test, Internal>>

ValidIssueType(s) == \E i \in DOMAIN AllIssueTypes : AllIssueTypes[i] = s

\* the limit of a slug's length
MaxSlugLen == 60

\* strings.ToLower, rune by rune: ASCII capitals, and the one non-ASCII rune of
\* the model's alphabet, KELVIN SIGN, whose lower case is the ASCII "k"
ToLower(c) ==
    IF c \in UpperSet THEN Lower[IndexOf(Upper, c)]
    ELSE IF c = "U+212A" THEN "k"
    ELSE c

\* the class [a-zA-Z0-9] of nonAlphanumeric
IsAlnum(c) == c \in LowerSet \cup UpperSet \cup DigitSet

\* nonAlphanumeric.ReplaceAllString(s, "-"): every maximal run of characters
\* outside the class becomes one hyphen
ReplaceNonAlnum(s) ==
    LET mark == [i \in DOMAIN s |->
                    IF IsAlnum(s[i]) THEN s[i]
                    ELSE IF i = 1 \/ IsAlnum(s[i - 1]) THEN "-"
                    ELSE ""]
    IN  SelectSeq(mark, LAMBDA c : c # "")

\* strings.TrimRight(s, c), strings.TrimLeft(s, c), strings.Trim(s, c)
TrimRight(s, c) ==
    IF \A i \in DOMAIN s : s[i] = c THEN << >>
    ELSE Take(s, SetMax({i \in DOMAIN s : s[i] # c}))
TrimLeft(s, c) ==
    IF \A i \in DOMAIN s : s[i] = c THEN << >>
    ELSE Drop(s, SetMin({i \in DOMAIN s : s[i] # c}) - 1)
Trim(s, c) == TrimLeft(TrimRight(s, c), c)

\* slugify with the length limit left out
slugifyNoLimit(s) ==
    Trim(ReplaceNonAlnum([i \in DOMAIN s |-> ToLower(s[i])]), "-")

\* slugify with the re-trim after the truncation left out
slugifyNoRetrim(s) ==
    LET t == Trim(ReplaceNonAlnum([i \in DOMAIN s |-> ToLower(s[i])]), "-")
    IN  IF Len(t) > MaxSlugLen THEN Take(t, MaxSlugLen) ELSE t

slugify(s) ==
    LET lowered  == [i \in DOMAIN s |-> ToLower(s[i])]
        replaced == ReplaceNonAlnum(lowered)
        trimmed  == Trim(replaced, "-")
    IN  IF Len(trimmed) > MaxSlugLen
        THEN TrimRight(Take(trimmed, MaxSlugLen), "-")
        ELSE trimmed

\* GenerateName with the hyphen between number and slug left out
GenerateNameNoSep(issueType, issueNumber, title) ==
    IF issueNumber > 0
    THEN issueType \o <<"/","G","H","-">> \o Itoa(issueNumber) \o slugify(title)
    ELSE issueType \o <<"/">> \o slugify(title)

GenerateName(issueType, issueNumber, title) ==
    LET slug == slugify(title)
    IN  IF issueNumber > 0
        THEN issueType \o <<"/","G","H","-">> \o Itoa(issueNumber) \o <<"-">> \o slug
        ELSE issueType \o <<"/">> \o slug

-----------------------------------------------------------------------------
(* package cmd, create_pr.go: the branch name read back *)

\* whether issueNumberRegex, /GH-(\d+)-, matches s at offset i
IssueMatchAt(s, i) ==
    LET rest == Drop(s, i)
        run  == DigitRun(Drop(rest, 4))
    IN  /\ HasPrefix(rest, <<"/","G","H","-">>)
        /\ run >= 1
        /\ Len(rest) > 4 + run
        /\ rest[4 + run + 1] = "-"

\* issueNumberRegex.FindStringSubmatch(s)[1] of the leftmost match; << >> when
\* the regex does not match
IssueSubmatch(s) ==
    LET at == {i \in 0..Len(s) : IssueMatchAt(s, i)}
    IN  IF at = {} THEN << >>
        ELSE LET rest == Drop(s, SetMin(at) + 4)
             IN  Take(rest, DigitRun(rest))

extractIssueFromBranch(branchName) ==
    LET m == IssueSubmatch(branchName)
    IN  IF m # << >> /\ AtoiOk(m) THEN Atoi(m) ELSE 0

\* strings.ToUpper of one ASCII character
ToUpper(c) == IF c \in LowerSet THEN Upper[IndexOf(Lower, c)] ELSE c

\* strings.ReplaceAll(s, "-", " ")
HyphensToSpaces(s) == [i \in DOMAIN s |-> IF s[i] = "-" THEN " " ELSE s[i]]

generateTitleFromBranch(branchName) ==
    LET slash == Index(branchName, <<"/">>)
        \* strings.SplitN(branchName, "/", 2): parts[1] when there are two parts
        part  == IF slash >= 0 THEN Drop(branchName, slash + 1) ELSE branchName
        run   == DigitRun(part)
        \* ^\d+- replaced by nothing
        noNum == IF run >= 1 /\ Len(part) > run /\ part[run + 1] = "-"
                 THEN Drop(part, run + 1) ELSE part
        title == HyphensToSpaces(noNum)
    IN  IF Len(title) > 0 THEN <<ToUpper(title[1])>> \o Tail(title) ELSE title

-----------------------------------------------------------------------------
(* The state of a command that is not running, and of an idle harness *)

NoText == << >>

IdleCmd ==
    /\ cmd = "none"
    /\ flags = [useDefaults |-> FALSE]
    /\ loc = << >>
    /\ trace = << >>
    /\ exitCode = -1

cmdVars == <<cmd, flags, loc, trace, exitCode>>

-----------------------------------------------------------------------------
(* SpecName: slugify, GenerateName, extractIssueFromBranch and              *)
(* generateTitleFromBranch applied to bounded inputs                        *)

\* the longest free part of a title
MaxTail == 2
\* how far below MaxSlugLen the padded titles start
PadSlack == 2

TitleAlphabet == {"a", "B", "7", "-", " ", "U+212A"}

SeqsUpTo(S, n) == UNION {[1..k -> S] : k \in 0..n}

Pad(k) == [i \in 1..k |-> "x"]

\* titles: a free part, alone or after a long word that brings the slug to the
\* length limit, so that the cut falls on, before or after a hyphen
TitlePads == {0} \cup ((MaxSlugLen - PadSlack)..MaxSlugLen)
AddLoginPage == <<"A","d","d"," ","l","o","g","i","n"," ","p","a","g","e","!","!">>
Titles ==
    {Pad(k) \o t : k \in TitlePads, t \in SeqsUpTo(TitleAlphabet, MaxTail)}
        \cup {AddLoginPage}

IssueNumbers == {0, 7, 42}

InitName ==
    /\ pc = "input"
    /\ input \in [issueType : Range(AllIssueTypes),
                  issueNumber : IssueNumbers,
                  title : Titles]
    /\ result = << >>
    /\ IdleCmd

ApplySlugify ==
    /\ pc = "input"
    /\ pc' = "slugify"
    /\ result' = <<slugify(input.title)>>
    /\ UNCHANGED <<input, cmdVars>>

ApplySlugifyAgain ==
    /\ pc = "slugify"
    /\ pc' = "slugify.slugify"
    /\ result' = Append(result, slugify(result[1]))
    /\ UNCHANGED <<input, cmdVars>>

ApplyGenerateName ==
    /\ pc = "input"
    /\ pc' = "GenerateName"
    /\ result' = <<GenerateName(input.issueType, input.issueNumber, input.title)>>
    /\ UNCHANGED <<input, cmdVars>>

ApplyExtractIssue ==
    /\ pc = "GenerateName"
    /\ pc' = "GenerateName.extractIssueFromBranch"
    /\ result' = Append(result, extractIssueFromBranch(result[1]))
    /\ UNCHANGED <<input, cmdVars>>

ApplyTitleFromBranch ==
    /\ pc = "GenerateName"
    /\ pc' = "GenerateName.generateTitleFromBranch"
    /\ result' = Append(result, generateTitleFromBranch(result[1]))
    /\ UNCHANGED <<input, cmdVars>>

NextName ==
    \/ ApplySlugify
    \/ ApplySlugifyAgain
    \/ ApplyGenerateName
    \/ ApplyExtractIssue
    \/ ApplyTitleFromBranch

SpecName == InitName /\ [][NextName]_vars

-----------------------------------------------------------------------------
(* Properties of the name functions, under SpecName *)

\* strings.HasSuffix
HasSuffix(s, p) == Len(s) >= Len(p) /\ Drop(s, Len(s) - Len(p)) = p

\* [a-z0-9]+(-[a-z0-9]+)*
IsSlug(s) ==
    /\ Len(s) >= 1
    /\ \A i \in DOMAIN s : s[i] \in LowerSet \cup DigitSet \cup {"-"}
    /\ s[1] # "-"
    /\ s[Len(s)] # "-"
    /\ \A i \in 1..(Len(s) - 1) : ~(s[i] = "-" /\ s[i + 1] = "-")

\* what precedes the slug in the wire format: "<type>/GH-<n>-" or "<type>/"
WirePrefix(issueType, n) ==
    issueType \o <<"/">> \o
        (IF n > 0 THEN <<"G","H","-">> \o Itoa(n) \o <<"-">> ELSE << >>)

\* the part of a generated name after the wire prefix of its arguments
SlugPart(name) == Drop(name, Len(WirePrefix(input.issueType, input.issueNumber)))

\* C1: for every valid type, every n > 0 and every title, also one whose slug
\* is empty, extractIssueFromBranch(GenerateName(type, n, title)) is n.
RoundTrip ==
    (pc = "GenerateName.extractIssueFromBranch" /\ input.issueNumber > 0)
        => result[2] = input.issueNumber

\* C1's case: a number read back from a name whose slug is empty
RoundTripEmptySlug ==
    /\ pc = "GenerateName.extractIssueFromBranch"
    /\ input.issueNumber = 42
    /\ input.title # << >>
    /\ result[1] = Feature \o <<"/","G","H","-","4","2","-">>
    /\ result[2] = 42

\* C2: generateTitleFromBranch of a generated name "<type>/GH-<n>-<slug>"
\* drops the type and the issue-number prefix and returns the slug with its
\* hyphens turned into spaces and its first character capitalized.
TitleDropsIssuePrefix ==
    (pc = "GenerateName.generateTitleFromBranch" /\ input.issueNumber > 0)
        => LET words == HyphensToSpaces(SlugPart(result[1]))
           IN  result[2] = IF words = << >> THEN << >>
                           ELSE <<ToUpper(words[1])>> \o Tail(words)

\* C3 as stated: every generated name is the wire prefix followed by a
\* non-empty slug [a-z0-9]+(-[a-z0-9]+)* of at most 60 characters.
WireFormatNonEmpty ==
    pc = "GenerateName"
        => /\ HasPrefix(result[1], WirePrefix(input.issueType, input.issueNumber))
           /\ IsSlug(SlugPart(result[1]))
           /\ Len(SlugPart(result[1])) <= 60

\* C3 amended: every generated name is the wire prefix followed by a slug that
\* is empty or matches [a-z0-9]+(-[a-z0-9]+)*, of at most 60 characters.
WireFormat ==
    pc = "GenerateName"
        => /\ ValidIssueType(input.issueType)
           /\ HasPrefix(result[1], WirePrefix(input.issueType, input.issueNumber))
           /\ SlugPart(result[1]) = << >> \/ IsSlug(SlugPart(result[1]))
           /\ Len(SlugPart(result[1])) <= 60

\* C3's case: a title longer than the limit whose slug is cut to 60 characters
WireFormatCut ==
    /\ pc = "GenerateName"
    /\ input.issueNumber > 0
    /\ Len(input.title) > 60
    /\ Len(SlugPart(result[1])) = 60
    /\ IsSlug(SlugPart(result[1]))

\* C4: slugify(slugify(s)) = slugify(s), also when the cut at 60 characters
\* falls on or next to a hyphen.
SlugifyIdempotent ==
    pc = "slugify.slugify" => result[2] = result[1]

\* C4's case: the 60th character of the title is a hyphen, which the cut
\* leaves last and the re-trim removes
SlugifyCutOnHyphen ==
    /\ pc = "slugify.slugify"
    /\ Len(input.title) > 60
    /\ input.title[60] = "-"
    /\ Len(result[1]) = 59
    /\ result[2] = result[1]

-----------------------------------------------------------------------------
(* package cmd, create_branch.go: the issue type inferred from the labels *)

\* toLower: byte by byte, ASCII capitals only
toLower(s) ==
    [i \in DOMAIN s |-> IF s[i] \in UpperSet THEN Lower[IndexOf(Upper, s[i])]
                        ELSE s[i]]

\* contains as a substring search
containsAnywhere(s, substrs) ==
    \E k \in DOMAIN substrs : Contains(toLower(s), substrs[k])

\* contains(s, substrs...): s, lower-cased, equals one of substrs, or is
\* longer than it and starts or ends with it
contains(s, substrs) ==
    LET l == toLower(s)
    IN  \E k \in DOMAIN substrs :
            LET sub == substrs[k]
            IN  \/ l = sub
                \/ /\ Len(l) > Len(sub)
                   /\ \/ Take(l, Len(sub)) = sub
                      \/ Drop(l, Len(l) - Len(sub)) = sub

kwBug           == <<"b","u","g">>
kwFix           == <<"f","i","x">>
kwFeature       == <<"f","e","a","t","u","r","e">>
kwEnhancement   == <<"e","n","h","a","n","c","e","m","e","n","t">>
kwHotfix        == <<"h","o","t","f","i","x">>
kwUrgent        == <<"u","r","g","e","n","t">>
kwCritical      == <<"c","r","i","t","i","c","a","l">>
kwDocs          == <<"d","o","c","s">>
kwDocumentation == <<"d","o","c","u","m","e","n","t","a","t","i","o","n">>
kwRefactor      == <<"r","e","f","a","c","t","o","r">>
kwTest          == <<"t","e","s","t">>
kwChore         == <<"c","h","o","r","e">>
kwMaintenance   == <<"m","a","i","n","t","e","n","a","n","c","e">>

\* the cases of inferIssueType's switch, in order: keywords and the type
Rules ==
    << [keywords |-> <<kwBug, kwFix>>,                  type |-> Bugfix],
       [keywords |-> <<kwFeature, kwEnhancement>>,      type |-> Feature],
       [keywords |-> <<kwHotfix, kwUrgent, kwCritical>>, type |-> Hotfix],
       [keywords |-> <<kwDocs, kwDocumentation>>,       type |-> Docs],
       [keywords |-> <<kwRefactor>>,                    type |-> Refactor],
       [keywords |-> <<kwTest>>,                        type |-> Test],
       [keywords |-> <<kwChore, kwMaintenance>>,        type |-> Chore] >>

\* the switch on one label: the type of the first case that holds, "" when none
SwitchOnLabel(name) ==
    LET hold == {r \in DOMAIN Rules : contains(name, Rules[r].keywords)}
    IN  IF hold = {} THEN NoText ELSE Rules[SetMin(hold)].type

RECURSIVE inferFrom(_, _)
\* the loop of inferIssueType from label i on
inferFrom(labels, i) ==
    IF i > Len(labels) THEN NoText
    ELSE IF SwitchOnLabel(labels[i]) # NoText THEN SwitchOnLabel(labels[i])
    ELSE inferFrom(labels, i + 1)

inferIssueType(issue) == inferFrom(issue.labels, 1)

-----------------------------------------------------------------------------
(* SpecInfer: inferIssueType applied to bounded label lists *)

\* the most labels of an issue
MaxLabels == 3

AllKeywords == UNION {Range(Rules[r].keywords) : r \in DOMAIN Rules}

Needs    == <<"n","e","e","d","s","-">>
Needed   == <<"-","n","e","e","d","e","d">>
Review   == <<"-","r","e","v","i","e","w">>
Question == <<"q","u","e","s","t","i","o","n">>

\* a keyword as a label: itself, capitalized, as prefix, as suffix, inside
LabelForms(k) ==
    {k, <<ToUpper(k[1])>> \o Tail(k), k \o Needed, Needs \o k, Needs \o k \o Review}

FirstLabels == UNION {LabelForms(k) : k \in AllKeywords} \cup {Question, NoText}

\* the labels that follow the first
MoreLabels == {kwBug, kwDocumentation \o Needed, Needs \o kwTest \o Review, kwUrgent}

LabelLists ==
    {<< >>} \cup
    {<<first>> \o more : first \in FirstLabels,
                         more \in SeqsUpTo(MoreLabels, MaxLabels - 1)}

InitInfer ==
    /\ pc = "input"
    /\ input \in [labels : LabelLists]
    /\ result = << >>
    /\ IdleCmd

ApplyInferIssueType ==
    /\ pc = "input"
    /\ pc' = "inferIssueType"
    /\ result' = <<inferIssueType(input)>>
    /\ UNCHANGED <<input, cmdVars>>

NextInfer == ApplyInferIssueType

SpecInfer == InitInfer /\ [][NextInfer]_vars

-----------------------------------------------------------------------------
(* Properties of inferIssueType, under SpecInfer *)

\* label, ignoring case, equals keyword or starts or ends with it
Matches(label, keyword) ==
    LET l == [i \in DOMAIN label |-> ToLower(label[i])]
    IN  HasPrefix(l, keyword) \/ HasSuffix(l, keyword)

MatchesRule(label, r) == \E k \in Range(Rules[r].keywords) : Matches(label, k)

\* C5: when the first label equals, starts with or ends with "hotfix",
\* "urgent" or "critical", ignoring case, inferIssueType returns hotfix.
HotfixKeywordGivesHotfix ==
    (/\ pc = "inferIssueType"
     /\ Len(input.labels) >= 1
     /\ \E k \in {kwHotfix, kwUrgent, kwCritical} : Matches(input.labels[1], k))
        => result[1] = Hotfix

\* C6: inferIssueType returns the type of the first label, in label order,
\* that matches a rule (the first such rule of the switch), whatever the later
\* labels are, and "" when no label matches; a label matches a keyword only
\* as the keyword itself, a prefix or a suffix, never in its interior.
FirstMatchingLabelWins ==
    pc = "inferIssueType"
        => LET hits == {i \in DOMAIN input.labels :
                           \E r \in DOMAIN Rules : MatchesRule(input.labels[i], r)}
           IN  IF hits = {} THEN result[1] = NoText
               ELSE LET label == input.labels[SetMin(hits)]
                        first == SetMin({r \in DOMAIN Rules : MatchesRule(label, r)})
                    IN  result[1] = Rules[first].type

\* C6's case: a keyword in the interior of the first label is passed over, the
\* second label decides by its prefix, and the third is ignored
InteriorPassedOver ==
    /\ pc = "inferIssueType"
    /\ input.labels = <<Needs \o kwDocumentation \o Review,
                        kwDocumentation \o Needed, kwBug>>
    /\ result[1] = Docs

-----------------------------------------------------------------------------
(* package cmd, create_pr.go: the pull request's body *)

\* a *ghapi.Issue: present is FALSE for nil
NoIssue ==
    [present |-> FALSE, number |-> 0, title |-> NoText, body |-> NoText,
     labels |-> << >>]

\* "## Description\n\n"
DescriptionHeading ==
    <<"#","#"," ","D","e","s","c","r","i","p","t","i","o","n","\n","\n">>

\* "<!-- Describe your changes here -->\n\n"
Placeholder ==
    <<"<","!","-","-"," ","D","e","s","c","r","i","b","e"," ","y","o","u",
      "r"," ","c","h","a","n","g","e","s"," ","h","e","r","e"," ","-","-",
      ">","\n","\n">>

\* "## Checklist\n\n"
ChecklistHeading ==
    <<"#","#"," ","C","h","e","c","k","l","i","s","t","\n","\n">>

\* "- [ ] Tests added/updated\n"
ItemTests ==
    <<"-"," ","["," ","]"," ","T","e","s","t","s"," ","a","d","d","e","d",
      "/","u","p","d","a","t","e","d","\n">>

\* "- [ ] Documentation updated\n"
ItemDocs ==
    <<"-"," ","["," ","]"," ","D","o","c","u","m","e","n","t","a","t","i",
      "o","n"," ","u","p","d","a","t","e","d","\n">>

\* "- [ ] Code follows project conventions\n"
ItemConventions ==
    <<"-"," ","["," ","]"," ","C","o","d","e"," ","f","o","l","l","o","w",
      "s"," ","p","r","o","j","e","c","t"," ","c","o","n","v","e","n","t",
      "i","o","n","s","\n">>

\* fmt.Sprintf("Resolves #%d", n)
ResolvesRef(n) == <<"R","e","s","o","l","v","e","s"," ","#">> \o Itoa(n)

\* fmt.Sprintf("Closes #%d", n), without the line's "\n"
ClosesRef(n) == <<"C","l","o","s","e","s"," ","#">> \o Itoa(n)

\* generatePRBody writing "Closes" only under the generated description
generatePRBodyClosesIfEmpty(issue) ==
    IF issue.present
    THEN IF issue.body # NoText
         THEN DescriptionHeading \o issue.body \o <<"\n","\n">>
         ELSE DescriptionHeading \o ResolvesRef(issue.number) \o <<"\n","\n">>
                  \o ClosesRef(issue.number) \o <<"\n">>
    ELSE DescriptionHeading \o Placeholder \o ChecklistHeading
             \o ItemTests \o ItemDocs \o ItemConventions

generatePRBody(issue) ==
    IF issue.present
    THEN DescriptionHeading
             \o (IF issue.body # NoText THEN issue.body
                 ELSE ResolvesRef(issue.number))
             \o <<"\n","\n">>
             \o ClosesRef(issue.number) \o <<"\n">>
    ELSE DescriptionHeading \o Placeholder \o ChecklistHeading
             \o ItemTests \o ItemDocs \o ItemConventions

-----------------------------------------------------------------------------
(* SpecBody: generatePRBody applied to bounded issues *)

\* the longest free issue body
MaxBody == 2

BodyAlphabet == {"a", " ", "\n", "#", "7"}

\* issue bodies: short free text, and two that quote a reference themselves
SeeAlso == <<"S","e","e"," ","#","7",".">>
Bodies ==
    SeqsUpTo(BodyAlphabet, MaxBody)
        \cup {SeeAlso, ResolvesRef(7) \o <<"0">>, ClosesRef(42)}

BodyIssues ==
    {[present |-> TRUE, number |-> n, title |-> AddLoginPage, body |-> b,
      labels |-> << >>] : n \in IssueNumbers \ {0}, b \in Bodies}
        \cup {NoIssue}

InitBody ==
    /\ pc = "input"
    /\ input \in [issue : BodyIssues]
    /\ result = << >>
    /\ IdleCmd

ApplyGeneratePRBody ==
    /\ pc = "input"
    /\ pc' = "generatePRBody"
    /\ result' = <<generatePRBody(input.issue)>>
    /\ UNCHANGED <<input, cmdVars>>

NextBody == ApplyGeneratePRBody

SpecBody == InitBody /\ [][NextBody]_vars

-----------------------------------------------------------------------------
(* Properties of generatePRBody, under SpecBody *)

\* the body ends with the line "Closes #N", a blank line after what precedes
ClosesLast(body, n) == HasSuffix(body, <<"\n","\n">> \o ClosesRef(n) \o <<"\n">>)

\* C7 as stated: for an issue N the body has "Closes #N" after the
\* description; it contains "Resolves #N" exactly when the issue body is
\* empty, and otherwise the issue body verbatim.
ResolvesIffEmptyBody ==
    (pc = "generatePRBody" /\ input.issue.present)
        => LET n == input.issue.number
           IN  /\ ClosesLast(result[1], n)
               /\ Contains(result[1], ResolvesRef(n)) <=> input.issue.body = NoText
               /\ input.issue.body # NoText
                      => HasPrefix(result[1], DescriptionHeading \o input.issue.body)

\* C7 amended: for an issue N the body has "Closes #N" after the description;
\* the description is "Resolves #N" when the issue body is empty and otherwise
\* the issue body verbatim, so that the body then contains "Resolves #N" only
\* if the issue body does.
ClosesAfterDescription ==
    (pc = "generatePRBody" /\ input.issue.present)
        => LET n == input.issue.number
           IN  /\ ClosesLast(result[1], n)
               /\ input.issue.body = NoText
                      => HasPrefix(result[1], DescriptionHeading \o ResolvesRef(n))
               /\ input.issue.body # NoText
                      => /\ HasPrefix(result[1], DescriptionHeading \o input.issue.body)
                         /\ Contains(result[1], ResolvesRef(n))
                                <=> Contains(input.issue.body, ResolvesRef(n))

\* C7's case: an issue body that itself says "Resolves #70", for issue 7
BodyQuotesResolves ==
    /\ pc = "generatePRBody"
    /\ input.issue.present
    /\ input.issue.number = 7
    /\ input.issue.body = ResolvesRef(7) \o <<"0">>
    /\ Contains(result[1], ClosesRef(7))
    /\ Contains(result[1], ResolvesRef(7))

-----------------------------------------------------------------------------
(* package prompt: one line read from the terminal, and what is made of it *)

\* strings.TrimSpace
IsSpace(c) == c \in {" ", "\n", "\t", "\r"}
TrimSpace(s) ==
    IF \A i \in DOMAIN s : IsSpace(s[i]) THEN NoText
    ELSE SubSeq(s, SetMin({i \in DOMAIN s : ~IsSpace(s[i])}),
                   SetMax({i \in DOMAIN s : ~IsSpace(s[i])}))

\* Confirm(message, defaultYes), given the line read
Confirm(line, defaultYes) ==
    LET in == TrimSpace([i \in DOMAIN line |-> ToLower(line[i])])
    IN  IF in = NoText THEN defaultYes
        ELSE in = <<"y">> \/ in = <<"y","e","s">>

\* Input(message, defaultVal), given the line read
Input(line, defaultVal) ==
    LET in == TrimSpace(line)
    IN  IF in = NoText THEN defaultVal ELSE in

\* Select(message, options), given the line read and len(options): the index
\* chosen (from 0), and whether the selection is valid
Select(line, n) ==
    LET in == TrimSpace(line)
        ok == AtoiOk(in) /\ Atoi(in) >= 1 /\ Atoi(in) <= n
    IN  [ok |-> ok, idx |-> IF ok THEN Atoi(in) - 1 ELSE -1]

-----------------------------------------------------------------------------
(* The commands' surroundings: what the user types, what the gateways return *)

\* the reader at end of input returns the empty line
EndOfInput == NoText

\* answers to a yes/no question
ConfirmLines == {EndOfInput, <<"\n">>, <<"Y","e","s"," ","\n">>, <<"n","\n">>}
\* answers to a question for text
TextLines == {<<"\n">>, <<" ","d","e","v","\n">>}
\* answers to a question for a number
NumberLines == {EndOfInput, <<"2","\n">>, <<"-","3","\n">>, <<"x","\n">>}

Main    == <<"m","a","i","n">>
Trunk   == <<"t","r","u","n","k">>
Develop == <<"d","e","v","e","l","o","p">>
Bogus   == <<"b","o","g","u","s">>
Custom  == <<"M","y"," ","P","R">>

\* what fetch-issue can return for issue n: title, body and labels vary; no
\* issue has a number below 1
IssuesNumbered(n) ==
    IF n < 1 THEN {} ELSE
    { [present |-> TRUE, number |-> n, title |-> AddLoginPage, body |-> NoText,
       labels |-> <<kwEnhancement>>],
      [present |-> TRUE, number |-> n, title |-> <<"?","?">>, body |-> SeeAlso,
       labels |-> <<Question, kwHotfix>>],
      [present |-> TRUE, number |-> n, title |-> Custom, body |-> SeeAlso,
       labels |-> <<Question>>] }

\* what list-open-issues can return: nothing, or issues 7 and 42
OpenIssueLists ==
    { << >>,
      << CHOOSE i \in IssuesNumbered(7) : i.body = NoText,
         CHOOSE i \in IssuesNumbered(42) : i.body = NoText >> }

\* the branches create-pr can be run on: a generated name, two names without
\* an issue number, and a name whose number is out of the range of int
CurrentBranches ==
    { GenerateName(Feature, 42, AddLoginPage),
      Main,
      Chore \o <<"/","c","l","e","a","n","u","p">>,
      Test \o <<"/","G","H","-">> \o MaxIntDigits \o <<"0","-","x">> }

\* one entry of the trace: a gateway call and whether it succeeded, a prompt
\* and the text it returned (for Confirm: ok is the answer), or a message
Call(op, ok, text) == [op |-> op, what |-> "", ok |-> ok, text |-> text]
Asked(op, what, ok, text) == [op |-> op, what |-> what, ok |-> ok, text |-> text]
Printed(what) == [op |-> "print", what |-> what, ok |-> TRUE, text |-> NoText]

PrompterOps == {"Confirm", "Input", "Select"}

\* the flags of the two commands
BranchFlags ==
    [useDefaults : BOOLEAN, issueNumber : {0, 7},
     issueType : {NoText, Bugfix, Bogus}, baseBranch : {NoText, Develop},
     title : {NoText}, body : {NoText}, draft : {FALSE}]
PRFlags ==
    [useDefaults : BOOLEAN, issueNumber : {0, 7},
     issueType : {NoText}, baseBranch : {NoText, Develop},
     title : {NoText, Custom}, body : {NoText, Custom}, draft : BOOLEAN]

\* the locals of a run: the arguments, and what the run adds
Locals(f) ==
    [issueNumber |-> f.issueNumber, issueType |-> f.issueType,
     baseBranch |-> f.baseBranch, title |-> f.title, body |-> f.body,
     draft |-> f.draft, issue |-> NoIssue, currentBranch |-> NoText,
     branchName |-> NoText, err |-> ""]

Init ==
    /\ cmd \in {"create-branch", "create-pr"}
    /\ flags \in IF cmd = "create-branch" THEN BranchFlags ELSE PRFlags
    /\ loc = Locals(flags)
    /\ pc = "RepoSlug"
    /\ trace = << >>
    /\ exitCode = -1
    /\ input = << >>
    /\ result = << >>

harnessVars == <<input, result>>

\* the run returns err (Execute exits with 1) or nil (0)
Return(err) ==
    /\ pc' = "done"
    /\ exitCode' = IF err = "" THEN 0 ELSE 1

-----------------------------------------------------------------------------
(* create-branch: runCreateBranch, step by step *)

CB_RepoSlug ==
    /\ cmd = "create-branch" /\ pc = "RepoSlug"
    /\ \E ok \in BOOLEAN :
          /\ trace' = Append(trace, Call("RepoSlug", ok, NoText))
          /\ IF ok
             THEN /\ pc' = IF loc.issueNumber = 0 THEN "promptForIssue" ELSE "GetIssue"
                  /\ UNCHANGED <<loc, exitCode>>
             ELSE /\ loc' = [loc EXCEPT !.err = "not in a git repository"]
                  /\ Return("not in a git repository")
    /\ UNCHANGED <<cmd, flags, harnessVars>>

\* promptForIssue returning the error of a failed listing
PromptForIssueAborting ==
    { [events |-> <<Call("ListOpenIssues", FALSE, NoText)>>,
       err |-> "failed to list issues", number |-> 0] }
    \cup
    { LET in == Input(line, NoText)
      IN  [events |-> <<Call("ListOpenIssues", TRUE, NoText),
                        Asked("Input", "No issues assigned to you. Enter issue number",
                              TRUE, in)>>,
           err |-> IF AtoiOk(in) THEN "" ELSE "invalid issue number",
           number |-> IF AtoiOk(in) THEN Atoi(in) ELSE 0]
      : line \in NumberLines }

\* promptForIssue(repo): the calls it makes, the number it returns and its error
PromptForIssueOutcomes ==
    \* the listing fails, or lists nothing: manual entry
    { LET in == Input(line, NoText)
      IN  [events |-> <<Call("ListOpenIssues", listed, NoText),
                        Asked("Input", IF listed THEN "No issues assigned to you. Enter issue number"
                                       ELSE "Issue number", TRUE, in)>>,
           err |-> IF AtoiOk(in) THEN "" ELSE "invalid issue number",
           number |-> IF AtoiOk(in) THEN Atoi(in) ELSE 0]
      : listed \in BOOLEAN, line \in NumberLines }
    \cup
    \* the listing has issues: selection
    { LET sel == Select(line, Len(issues))
      IN  [events |-> <<Call("ListOpenIssues", TRUE, NoText),
                        Asked("Select", "Select an issue:", sel.ok, NoText)>>,
           err |-> IF sel.ok THEN "" ELSE "invalid selection",
           number |-> IF sel.ok THEN issues[sel.idx + 1].number ELSE 0]
      : issues \in OpenIssueLists \ {<< >>}, line \in NumberLines }

CB_PromptForIssue ==
    /\ cmd = "create-branch" /\ pc = "promptForIssue"
    /\ \E o \in PromptForIssueOutcomes :
          /\ trace' = trace \o o.events
          /\ IF o.err = ""
             THEN /\ loc' = [loc EXCEPT !.issueNumber = o.number]
                  /\ pc' = "GetIssue"
                  /\ UNCHANGED exitCode
             ELSE /\ loc' = [loc EXCEPT !.err = o.err]
                  /\ Return(o.err)
    /\ UNCHANGED <<cmd, flags, harnessVars>>

CB_GetIssue ==
    /\ cmd = "create-branch" /\ pc = "GetIssue"
    /\ \/ \E issue \in IssuesNumbered(loc.issueNumber) :
             /\ trace' = Append(trace, Call("GetIssue", TRUE, Itoa(loc.issueNumber)))
             /\ loc' = [loc EXCEPT !.issue = issue]
             /\ pc' = "type"
             /\ UNCHANGED exitCode
       \/ /\ trace' = Append(trace, Call("GetIssue", FALSE, Itoa(loc.issueNumber)))
          /\ loc' = [loc EXCEPT !.err = "failed to fetch issue"]
          /\ Return("failed to fetch issue")
    /\ UNCHANGED <<cmd, flags, harnessVars>>

\* "Determine issue type" without the ValidIssueType test
CB_TypeUnvalidated ==
    /\ cmd = "create-branch" /\ pc = "type"
    /\ LET t0 == IF loc.issueType = NoText THEN inferIssueType(loc.issue)
                 ELSE loc.issueType
       IN  \E line \in NumberLines :
              LET ask == t0 = NoText /\ ~flags.useDefaults
                  sel == Select(line, Len(AllIssueTypes))
                  t   == IF ask /\ sel.ok THEN AllIssueTypes[sel.idx + 1]
                         ELSE IF t0 = NoText THEN Feature
                         ELSE t0
              IN  /\ trace' = IF ask
                              THEN Append(trace, Asked("Select", "Select branch type:",
                                                       sel.ok, NoText))
                              ELSE trace
                  /\ IF ask /\ ~sel.ok
                     THEN /\ loc' = [loc EXCEPT !.err = "invalid selection"]
                          /\ Return("invalid selection")
                     ELSE /\ loc' = [loc EXCEPT !.issueType = t]
                          /\ pc' = "base"
                          /\ UNCHANGED exitCode
    /\ UNCHANGED <<cmd, flags, harnessVars>>

\* the branch type: given, inferred, selected or the default; then validated
CB_Type ==
    /\ cmd = "create-branch" /\ pc = "type"
    /\ LET t0 == IF loc.issueType = NoText THEN inferIssueType(loc.issue)
                 ELSE loc.issueType
       IN  \E line \in NumberLines :
              LET ask == t0 = NoText /\ ~flags.useDefaults
                  sel == Select(line, Len(AllIssueTypes))
                  t   == IF ask /\ sel.ok THEN AllIssueTypes[sel.idx + 1]
                         ELSE IF t0 = NoText THEN Feature
                         ELSE t0
                  err == IF ask /\ ~sel.ok THEN "invalid selection"
                         ELSE IF ~ValidIssueType(t) THEN "invalid branch type"
                         ELSE ""
              IN  /\ trace' = IF ask
                              THEN Append(trace, Asked("Select", "Select branch type:",
                                                       sel.ok, NoText))
                              ELSE trace
                  /\ IF err = ""
                     THEN /\ loc' = [loc EXCEPT !.issueType = t]
                          /\ pc' = "base"
                          /\ UNCHANGED exitCode
                     ELSE /\ loc' = [loc EXCEPT !.err = err]
                          /\ Return(err)
    /\ UNCHANGED <<cmd, flags, harnessVars>>

\* "Determine base branch", the same in both commands: the events and the base
BaseOutcomes ==
    IF loc.baseBranch # NoText
    THEN {[events |-> << >>, base |-> loc.baseBranch]}
    ELSE { LET defaultBase == IF found THEN Trunk ELSE Main
               asked == Input(line, defaultBase)
           IN  [events |-> <<Call("DefaultBranch", found, NoText)>> \o
                           (IF flags.useDefaults THEN << >>
                            ELSE <<Asked("Input", "Base branch", TRUE, asked)>>),
                base |-> IF flags.useDefaults THEN defaultBase ELSE asked]
           : found \in BOOLEAN, line \in TextLines }

CB_Base ==
    /\ cmd = "create-branch" /\ pc = "base"
    /\ \E o \in BaseOutcomes :
          /\ trace' = trace \o o.events
          /\ loc' = [loc EXCEPT !.baseBranch = o.base]
    /\ pc' = "name"
    /\ UNCHANGED <<cmd, flags, exitCode, harnessVars>>

CB_Name ==
    /\ cmd = "create-branch" /\ pc = "name"
    /\ LET name == GenerateName(loc.issueType, loc.issueNumber, loc.issue.title)
       IN  IF flags.useDefaults
           THEN /\ loc' = [loc EXCEPT !.branchName = name]
                /\ UNCHANGED trace
           ELSE \E line \in TextLines :
                   /\ loc' = [loc EXCEPT !.branchName = Input(line, name)]
                   /\ trace' = Append(trace, Asked("Input", "Branch name", TRUE,
                                                   Input(line, name)))
    /\ pc' = "CreateBranchFrom"
    /\ UNCHANGED <<cmd, flags, exitCode, harnessVars>>

\* CB_CreateBranchFrom dropping the error of git.CreateBranchFrom
CB_CreateBranchFromUnchecked ==
    /\ cmd = "create-branch" /\ pc = "CreateBranchFrom"
    /\ \E ok \in BOOLEAN :
          trace' = Append(trace, Call("CreateBranchFrom", ok, loc.branchName))
    /\ pc' = "push"
    /\ UNCHANGED <<cmd, flags, loc, exitCode, harnessVars>>

CB_CreateBranchFrom ==
    /\ cmd = "create-branch" /\ pc = "CreateBranchFrom"
    /\ \E ok \in BOOLEAN :
          /\ trace' = Append(trace, Call("CreateBranchFrom", ok, loc.branchName))
          /\ IF ok
             THEN /\ pc' = "push"
                  /\ UNCHANGED <<loc, exitCode>>
             ELSE /\ loc' = [loc EXCEPT !.err = "failed to create branch"]
                  /\ Return("failed to create branch")
    /\ UNCHANGED <<cmd, flags, harnessVars>>

\* "Ask to push", the push, and the return
CB_Push ==
    /\ cmd = "create-branch" /\ pc = "push"
    /\ \E line \in ConfirmLines, ok \in BOOLEAN :
          LET asked      == IF flags.useDefaults THEN << >>
                            ELSE <<Asked("Confirm", "Push branch to origin?",
                                         Confirm(line, TRUE), NoText)>>
              shouldPush == flags.useDefaults \/ Confirm(line, TRUE)
              err        == IF shouldPush /\ ~ok THEN "failed to push branch" ELSE ""
          IN  /\ trace' = trace \o asked \o
                            (IF shouldPush
                             THEN <<Call("PushBranch", ok, loc.branchName)>>
                             ELSE << >>)
              /\ loc' = [loc EXCEPT !.err = err]
              /\ Return(err)
    /\ UNCHANGED <<cmd, flags, harnessVars>>

-----------------------------------------------------------------------------
(* create-pr: runCreatePR, step by step *)

PR_RepoSlug ==
    /\ cmd = "create-pr" /\ pc = "RepoSlug"
    /\ \E ok \in BOOLEAN :
          /\ trace' = Append(trace, Call("RepoSlug", ok, NoText))
          /\ IF ok
             THEN /\ pc' = "CurrentBranch"
                  /\ UNCHANGED <<loc, exitCode>>
             ELSE /\ loc' = [loc EXCEPT !.err = "not in a git repository"]
                  /\ Return("not in a git repository")
    /\ UNCHANGED <<cmd, flags, harnessVars>>

\* the current branch, and the issue number detected from it
PR_CurrentBranch ==
    /\ cmd = "create-pr" /\ pc = "CurrentBranch"
    /\ \/ \E b \in CurrentBranches :
             /\ trace' = Append(trace, Call("CurrentBranch", TRUE, b))
             /\ loc' = [loc EXCEPT
                           !.currentBranch = b,
                           !.issueNumber = IF loc.issueNumber = 0
                                           THEN extractIssueFromBranch(b)
                                           ELSE loc.issueNumber]
             /\ pc' = "GetIssue"
             /\ UNCHANGED exitCode
       \/ /\ trace' = Append(trace, Call("CurrentBranch", FALSE, NoText))
          /\ loc' = [loc EXCEPT !.err = "failed to get current branch"]
          /\ Return("failed to get current branch")
    /\ UNCHANGED <<cmd, flags, harnessVars>>

\* "Fetch issue details if we have a number": a failure is only a warning
PR_GetIssue ==
    /\ cmd = "create-pr" /\ pc = "GetIssue"
    /\ IF loc.issueNumber > 0
       THEN \/ \E issue \in IssuesNumbered(loc.issueNumber) :
                  /\ trace' = Append(trace, Call("GetIssue", TRUE, Itoa(loc.issueNumber)))
                  /\ loc' = [loc EXCEPT !.issue = issue]
            \/ /\ trace' = trace \o <<Call("GetIssue", FALSE, Itoa(loc.issueNumber)),
                                      Printed("Could not fetch issue")>>
               /\ loc' = [loc EXCEPT !.issue = NoIssue]
       ELSE UNCHANGED <<trace, loc>>
    /\ pc' = "base"
    /\ UNCHANGED <<cmd, flags, exitCode, harnessVars>>

PR_Base ==
    /\ cmd = "create-pr" /\ pc = "base"
    /\ \E o \in BaseOutcomes :
          /\ trace' = trace \o o.events
          /\ loc' = [loc EXCEPT !.baseBranch = o.base]
    /\ pc' = "title"
    /\ UNCHANGED <<cmd, flags, exitCode, harnessVars>>

\* "Generate title"
PR_Title ==
    /\ cmd = "create-pr" /\ pc = "title"
    /\ IF loc.title # NoText
       THEN UNCHANGED <<trace, loc>>
       ELSE LET title == IF loc.issue.present THEN loc.issue.title
                         ELSE generateTitleFromBranch(loc.currentBranch)
            IN  IF flags.useDefaults
                THEN /\ loc' = [loc EXCEPT !.title = title]
                     /\ UNCHANGED trace
                ELSE \E line \in TextLines :
                        /\ loc' = [loc EXCEPT !.title = Input(line, title)]
                        /\ trace' = Append(trace, Asked("Input", "PR title", TRUE,
                                                        Input(line, title)))
    /\ pc' = "body"
    /\ UNCHANGED <<cmd, flags, exitCode, harnessVars>>

\* "Generate body"
PR_Body ==
    /\ cmd = "create-pr" /\ pc = "body"
    /\ IF loc.body # NoText
       THEN UNCHANGED <<trace, loc>>
       ELSE LET body == generatePRBody(loc.issue)
            IN  IF flags.useDefaults
                THEN /\ loc' = [loc EXCEPT !.body = body]
                     /\ UNCHANGED trace
                ELSE \E yesNo \in ConfirmLines, line \in TextLines :
                        LET use == Confirm(yesNo, TRUE)
                        IN  /\ loc' = [loc EXCEPT
                                          !.body = IF use THEN body
                                                   ELSE Input(line, NoText)]
                            /\ trace' = trace \o
                                 <<Printed("PR body preview"),
                                   Asked("Confirm", "Use this PR body?", use, NoText)>> \o
                                 (IF use THEN << >>
                                  ELSE <<Asked("Input", "PR body", TRUE,
                                               Input(line, NoText))>>)
    /\ pc' = "draft"
    /\ UNCHANGED <<cmd, flags, exitCode, harnessVars>>

\* "Draft"
PR_Draft ==
    /\ cmd = "create-pr" /\ pc = "draft"
    /\ IF ~flags.useDefaults /\ ~loc.draft
       THEN \E line \in ConfirmLines :
               /\ loc' = [loc EXCEPT !.draft = Confirm(line, FALSE)]
               /\ trace' = Append(trace, Asked("Confirm", "Create as draft?",
                                               Confirm(line, FALSE), NoText))
       ELSE UNCHANGED <<trace, loc>>
    /\ pc' = "proceed"
    /\ UNCHANGED <<cmd, flags, exitCode, harnessVars>>

\* PR_Proceed going on whatever the answer
PR_ProceedUnheeded ==
    /\ cmd = "create-pr" /\ pc = "proceed"
    /\ IF flags.useDefaults
       THEN UNCHANGED trace
       ELSE \E line \in ConfirmLines :
               trace' = Append(trace, Asked("Confirm", "Proceed?",
                                            Confirm(line, TRUE), NoText))
    /\ pc' = "PushBranch"
    /\ UNCHANGED <<cmd, flags, loc, exitCode, harnessVars>>

\* "Proceed?": declined, the run returns nil
PR_Proceed ==
    /\ cmd = "create-pr" /\ pc = "proceed"
    /\ IF flags.useDefaults
       THEN /\ pc' = "PushBranch"
            /\ UNCHANGED <<trace, exitCode>>
       ELSE \E line \in ConfirmLines :
               IF Confirm(line, TRUE)
               THEN /\ trace' = Append(trace, Asked("Confirm", "Proceed?", TRUE, NoText))
                    /\ pc' = "PushBranch"
                    /\ UNCHANGED exitCode
               ELSE /\ trace' = trace \o <<Asked("Confirm", "Proceed?", FALSE, NoText),
                                           Printed("Cancelled.")>>
                    /\ Return("")
    /\ UNCHANGED <<cmd, flags, loc, harnessVars>>

\* PR_Push returning the push's error
PR_PushAborting ==
    /\ cmd = "create-pr" /\ pc = "PushBranch"
    /\ \/ /\ trace' = Append(trace, Call("PushBranch", TRUE, loc.currentBranch))
          /\ pc' = "CreatePR"
          /\ UNCHANGED <<loc, exitCode>>
       \/ /\ trace' = trace \o <<Call("PushBranch", FALSE, loc.currentBranch),
                                 Printed("Push warning")>>
          /\ loc' = [loc EXCEPT !.err = "failed to push branch"]
          /\ Return("failed to push branch")
    /\ UNCHANGED <<cmd, flags, harnessVars>>

\* "Push the branch first": a failure is only a warning
PR_Push ==
    /\ cmd = "create-pr" /\ pc = "PushBranch"
    /\ \/ trace' = Append(trace, Call("PushBranch", TRUE, loc.currentBranch))
       \/ trace' = trace \o <<Call("PushBranch", FALSE, loc.currentBranch),
                              Printed("Push warning")>>
    /\ pc' = "CreatePR"
    /\ UNCHANGED <<cmd, flags, loc, exitCode, harnessVars>>

\* ghapi.CreatePR with the title and body of the run, and the return
PR_CreatePR ==
    /\ cmd = "create-pr" /\ pc = "CreatePR"
    /\ \E ok \in BOOLEAN :
          /\ trace' = Append(trace, Asked("CreatePR", "", ok, loc.body))
          /\ loc' = [loc EXCEPT !.err = IF ok THEN "" ELSE "failed to create PR"]
          /\ Return(IF ok THEN "" ELSE "failed to create PR")
    /\ UNCHANGED <<cmd, flags, harnessVars>>

Next ==
    \/ CB_RepoSlug
    \/ CB_PromptForIssue
    \/ CB_GetIssue
    \/ CB_Type
    \/ CB_Base
    \/ CB_Name
    \/ CB_CreateBranchFrom
    \/ CB_Push
    \/ PR_RepoSlug
    \/ PR_CurrentBranch
    \/ PR_GetIssue
    \/ PR_Base
    \/ PR_Title
    \/ PR_Body
    \/ PR_Draft
    \/ PR_Proceed
    \/ PR_Push
    \/ PR_CreatePR

Spec == Init /\ [][Next]_vars

-----------------------------------------------------------------------------
(* Properties of the commands, under Spec *)

\* the places of the trace where op was invoked
Invoked(op) == {i \in DOMAIN trace : trace[i].op = op}

\* C8: with -y set, no run of create-branch or create-pr, whatever the other
\* flags (--issue omitted too), invokes Confirm, Input or Select.
NoPromptWithYes ==
    flags.useDefaults => \A i \in DOMAIN trace : trace[i].op \notin PrompterOps

\* the body the run generated was accepted: by -y, or at "Use this PR body?"
GeneratedBodyUsed ==
    /\ flags.body = NoText
    /\ \/ flags.useDefaults
       \/ \E i \in Invoked("Confirm") :
             trace[i].what = "Use this PR body?" /\ trace[i].ok

\* C9: in create-pr, when an issue number N > 0 is given by --issue or detected
\* from the branch name, no --body is given and the generated body is used, the
\* body passed to create-pull-request contains "Closes #N", also in the runs
\* where fetching the issue fails.
LinkedBodyCloses ==
    (cmd = "create-pr" /\ loc.issueNumber > 0 /\ GeneratedBodyUsed)
        => \A i \in Invoked("CreatePR") :
               Contains(trace[i].text, ClosesRef(loc.issueNumber))

\* C10: in create-pr a failed push-branch never ends the run: the warning is
\* printed, create-pull-request is invoked next, and the exit status is that
\* of create-pull-request alone.
PushFailureIsOnlyAWarning ==
    cmd = "create-pr"
        => \A i \in Invoked("PushBranch") :
              ~trace[i].ok
                  => /\ i < Len(trace)
                     /\ trace[i + 1] = Printed("Push warning")
                     /\ IF Len(trace) = i + 1
                        THEN pc = "CreatePR" /\ exitCode = -1 /\ ENABLED PR_CreatePR
                        ELSE /\ Len(trace) = i + 2
                             /\ trace[i + 2].op = "CreatePR"
                             /\ pc = "done"
                             /\ exitCode = IF trace[i + 2].ok THEN 0 ELSE 1

\* C10's case: the push failed, the pull request was created, the run succeeds
PushFailedPRCreated ==
    /\ cmd = "create-pr"
    /\ pc = "done"
    /\ exitCode = 0
    /\ \E i \in Invoked("PushBranch") : ~trace[i].ok
    /\ \E i \in Invoked("CreatePR") : trace[i].ok


\* C11: in create-branch without --issue a failed list-open-issues never ends
\* the run: the user is asked for the number ("Issue number"); when the entry
\* parses as an integer the run goes on to fetch-issue with that number, and
\* when it does not the run fails with "invalid issue number" before any
\* fetch-issue or branch creation.
ListFailureFallsBackToEntry ==
    cmd = "create-branch"
        => \A i \in Invoked("ListOpenIssues") :
              ~trace[i].ok
                  => /\ flags.issueNumber = 0
                     /\ i < Len(trace)
                     /\ trace[i + 1].op = "Input"
                     /\ trace[i + 1].what = "Issue number"
                     /\ LET entry == trace[i + 1].text
                        IN  IF AtoiOk(entry)
                            THEN /\ loc.issueNumber = Atoi(entry)
                                 /\ loc.err # "invalid issue number"
                                 /\ IF Len(trace) = i + 1
                                    THEN /\ pc = "GetIssue" /\ exitCode = -1
                                         /\ ENABLED CB_GetIssue
                                    ELSE /\ trace[i + 2].op = "GetIssue"
                                         /\ trace[i + 2].text = Itoa(Atoi(entry))
                            ELSE /\ pc = "done" /\ exitCode = 1
                                 /\ loc.err = "invalid issue number"
                                 /\ Len(trace) = i + 1
                                 /\ Invoked("GetIssue") = {}
                                 /\ Invoked("CreateBranchFrom") = {}

\* C11's case: the listing failed, "2" was entered, and issue 2 was fetched
ListFailedIssueEntered ==
    /\ cmd = "create-branch"
    /\ \E i \in Invoked("ListOpenIssues") :
          /\ ~trace[i].ok
          /\ trace[i + 1].text = <<"2">>
    /\ \E i \in Invoked("GetIssue") : trace[i].ok /\ trace[i].text = <<"2">>
    /\ loc.issue.number = 2

\* C12: in create-branch a branch type that is not one of the IssueType tokens
\* ends the run with exit status 1 and neither create-branch-from nor
\* push-branch is invoked; a type that inferIssueType produces, a selected
\* type and the -y default "feature" always pass ValidIssueType.
InvalidTypeCreatesNothing ==
    cmd = "create-branch"
        => /\ (flags.issueType # NoText /\ ~ValidIssueType(flags.issueType))
                 => /\ Invoked("CreateBranchFrom") = {}
                    /\ Invoked("PushBranch") = {}
                    /\ pc \notin {"base", "name", "CreateBranchFrom", "push"}
                    /\ pc = "done" => exitCode = 1
                    /\ pc = "type" => ENABLED CB_Type
                    /\ (Invoked("GetIssue") # {} /\ pc = "done"
                        /\ \A i \in Invoked("GetIssue") : trace[i].ok)
                           => loc.err = "invalid branch type"
           /\ flags.issueType = NoText => loc.err # "invalid branch type"
           /\ loc.err = "invalid branch type"
                 => /\ pc = "done" /\ exitCode = 1
                    /\ ~ValidIssueType(flags.issueType)
           /\ pc \in {"base", "name", "CreateBranchFrom", "push"}
                 => ValidIssueType(loc.issueType)
           /\ pc = "type"
                 => /\ inferIssueType(loc.issue) # NoText
                          => ValidIssueType(inferIssueType(loc.issue))
                    /\ ValidIssueType(Feature)
                    /\ \A k \in 1..Len(AllIssueTypes) : ValidIssueType(AllIssueTypes[k])

\* C12's case: --type bogus, the issue was fetched, the run failed on the type
InvalidTypeRejected ==
    /\ cmd = "create-branch"
    /\ flags.issueType = Bogus
    /\ \E i \in Invoked("GetIssue") : trace[i].ok
    /\ pc = "done" /\ exitCode = 1
    /\ loc.err = "invalid branch type"

\* the invocations of op that failed
Failed(op) == {i \in Invoked(op) : ~trace[i].ok}

\* C13: in create-branch fetch-issue, create-branch-from and push-branch are
\* each invoked at most once and in that order; create-branch-from only after
\* a fetch-issue that succeeded, push-branch only after a create-branch-from
\* that succeeded and only with -y or a confirmed "Push branch to origin?";
\* a failure of any of the three is the last thing the run does and the run
\* ends with exit status 1.
GatewayOrder ==
    cmd = "create-branch"
        => /\ \A op \in {"GetIssue", "CreateBranchFrom", "PushBranch"} :
                 /\ Cardinality(Invoked(op)) <= 1
                 /\ \A i \in Failed(op) :
                       /\ i = Len(trace)
                       /\ pc = "done" /\ exitCode = 1
                       /\ loc.err # ""
           /\ \A j \in Invoked("CreateBranchFrom") :
                 \E i \in Invoked("GetIssue") : i < j /\ trace[i].ok
           /\ \A k \in Invoked("PushBranch") :
                 /\ \E j \in Invoked("CreateBranchFrom") : j < k /\ trace[j].ok
                 /\ \/ flags.useDefaults
                    \/ /\ trace[k - 1].op = "Confirm"
                       /\ trace[k - 1].what = "Push branch to origin?"
                       /\ trace[k - 1].ok
           /\ flags.useDefaults
                 => \A j \in Invoked("CreateBranchFrom") :
                       trace[j].ok /\ pc = "done" => Invoked("PushBranch") # {}
           /\ (pc = "done" /\ exitCode = 0)
                 => /\ Invoked("GetIssue") # {}
                    /\ Invoked("CreateBranchFrom") # {}
                    /\ \A op \in {"GetIssue", "CreateBranchFrom", "PushBranch"} :
                          Failed(op) = {}

\* C13's case: without -y all three operations succeeded, the push confirmed
AllThreeInOrder ==
    /\ cmd = "create-branch" /\ ~flags.useDefaults
    /\ \E i \in Invoked("GetIssue"), j \in Invoked("CreateBranchFrom"),
          k \in Invoked("PushBranch") :
          /\ i < j /\ j < k
          /\ trace[i].ok /\ trace[j].ok /\ trace[k].ok
          /\ trace[k - 1].op = "Confirm"
    /\ pc = "done" /\ exitCode = 0

\* C14: in create-pr without -y a declined "Proceed?" means neither
\* push-branch nor create-pull-request is invoked and the run ends with exit
\* status 0; whenever create-pull-request is invoked, push-branch was invoked
\* exactly once, before it.
DeclineStopsBeforePush ==
    cmd = "create-pr"
        => /\ \A i \in Invoked("Confirm") :
                 (trace[i].what = "Proceed?" /\ ~trace[i].ok)
                    => /\ ~flags.useDefaults
                       /\ Invoked("PushBranch") = {}
                       /\ Invoked("CreatePR") = {}
                       /\ pc = "done" /\ exitCode = 0
                       /\ loc.err = ""
           /\ \A j \in Invoked("CreatePR") :
                 /\ Cardinality(Invoked("PushBranch")) = 1
                 /\ \A i \in Invoked("PushBranch") : i < j
                 /\ Cardinality(Invoked("CreatePR")) = 1
                 /\ flags.useDefaults
                    \/ \E i \in Invoked("Confirm") :
                          /\ i < j /\ trace[i].what = "Proceed?" /\ trace[i].ok

\* C14's case: "Proceed?" was declined and the run ended with "Cancelled."
ProceedDeclined ==
    /\ cmd = "create-pr" /\ ~flags.useDefaults
    /\ Len(trace) >= 2
    /\ trace[Len(trace) - 1].op = "Confirm"
    /\ trace[Len(trace) - 1].what = "Proceed?"
    /\ ~trace[Len(trace) - 1].ok
    /\ trace[Len(trace)] = Printed("Cancelled.")
    /\ Invoked("PushBranch") = {}
    /\ pc = "done" /\ exitCode = 0

=============================================================================
